---- MODULE Spec2Model ----
(***************************************************************************)
(* PolicyService core of tfc-workflows-tooling: format detection,          *)
(* evaluation normalization, the wait engine and the override              *)
(* orchestrator, run against a Remote Run Gateway holding one run.         *)
(*                                                                         *)
(* Strings whose characters the code inspects (run identifiers, the        *)
(* justification) are sequences of one-character strings; all other        *)
(* strings are TLA+ strings.  Durations are counted in ticks of 10 s.      *)
(***************************************************************************)
EXTENDS Integers, Sequences, FiniteSets, TLC

(***************************************************************************)
(* Bounds of the model.                                                    *)
(***************************************************************************)
MaxCount == 2
MaxOutcomes == 2
MaxDeadline == 6
MaxProbeLatency == 1

(***************************************************************************)
(* Program constants.                                                      *)
(***************************************************************************)
\* 10 * time.Second, in ticks of 10 s
PolicyWaitInitialBackoff == 1
\* 30 * time.Second, in ticks of 10 s
PolicyWaitMaxBackoff == 3
\* minimum length of a justification
MinJustificationLength == 10

RunAwaiting == "post_plan_awaiting_decision"

(***************************************************************************)
(* Character strings.                                                      *)
(***************************************************************************)
LowerChars == {"r", "u"}
UpperChars == {"R"}
DigitChars == {"1"}
AlnumChars == LowerChars \cup UpperChars \cup DigitChars

\* Run identifiers a caller may pass.
RunA == <<"r", "-", "1">>
RunB == <<"r", "u", "-", "R">>
RunIDs ==
    { RunA, RunB, <<>>, <<"r", "1">>, <<"R", "-", "1">>, <<"-", "1">>,
      <<"r", "-">>, <<"r", "-", "1", "-">>, <<"r", "_", "1">> }

\* A justification of n characters.
Just(n) == [i \in 1..n |-> "x"]
Justifications == { Just(n) : n \in {0, 2, 9, 10} }

\* the pattern without its anchors: [a-z]+-[a-zA-Z0-9]+ found anywhere
validStringIDUnanchored(id) ==
    /\ id # <<>>
    /\ \E k \in 1..Len(id) :
        /\ id[k] = "-"
        /\ k > 1
        /\ id[k - 1] \in LowerChars
        /\ k < Len(id)
        /\ id[k + 1] \in AlnumChars

\* validStringID: non-empty and matching ^[a-z]+-[a-zA-Z0-9]+$
validStringID(id) ==
    /\ id # <<>>
    /\ \E k \in 1..Len(id) :
        /\ id[k] = "-"
        /\ k > 1
        /\ \A i \in 1..(k - 1) : id[i] \in LowerChars
        /\ k < Len(id)
        /\ \A j \in (k + 1)..Len(id) : id[j] \in AlnumChars

(***************************************************************************)
(* Errors and results.                                                     *)
(***************************************************************************)
NoValue == [none |-> TRUE]
Ok(v) == [kind |-> "ok", value |-> v]
Err(k, n) == [kind |-> k, err |-> n]

ErrInvalidRunID == Err("InvalidInput", "ErrInvalidRunID")
ErrInvalidJustification == Err("InvalidInput", "ErrInvalidJustification")
ErrNoPolicyCheck == Err("NotFound", "ErrNoPolicyCheck")
ErrPolicyPending == Err("Pending", "ErrPolicyPending")
ErrRunNotFound == Err("NotFound", "ErrRunNotFound")
ErrPermissionDenied == Err("PermissionDenied", "ErrPermissionDenied")

(***************************************************************************)
(* Entity validation.                                                      *)
(***************************************************************************)
\* PolicyEvaluation.Validate without the negative-count check
PolicyEvaluationValidateNoSign(pe) ==
    /\ validStringID(pe.run_id)
    /\ ~(pe.policy_stage_id = "" /\ pe.policy_check_id = "")
    /\ ~(pe.policy_stage_id # "" /\ pe.policy_check_id # "")
    /\ pe.total_count = pe.passed_count + pe.advisory_failed_count
                        + pe.mandatory_failed_count + pe.errored_count
    /\ pe.requires_override = (pe.mandatory_failed_count > 0)

\* PolicyEvaluation.Validate: TRUE iff it returns nil
PolicyEvaluationValidate(pe) ==
    /\ validStringID(pe.run_id)
    /\ ~(pe.policy_stage_id = "" /\ pe.policy_check_id = "")
    /\ ~(pe.policy_stage_id # "" /\ pe.policy_check_id # "")
    /\ ~(\/ pe.total_count < 0 \/ pe.passed_count < 0
         \/ pe.advisory_failed_count < 0
         \/ pe.mandatory_failed_count < 0 \/ pe.errored_count < 0)
    /\ pe.total_count = pe.passed_count + pe.advisory_failed_count
                        + pe.mandatory_failed_count + pe.errored_count
    /\ pe.requires_override = (pe.mandatory_failed_count > 0)

\* PolicyDetail.Validate
PolicyDetailValidate(pd) ==
    /\ pd.policy_name # ""
    /\ pd.enforcement_level \in {"mandatory", "advisory"}
    /\ pd.status \in {"failed", "errored"}

ValidFinalStatuses ==
    {"policy_override", "post_plan_completed", "apply_queued", "discarded",
     "errored"}

\* PolicyOverride.Validate
PolicyOverrideValidate(po) ==
    /\ validStringID(po.run_id)
    /\ ~(po.policy_stage_id = "" /\ po.policy_check_id = "")
    /\ po.justification # <<>>
    /\ po.initial_status = RunAwaiting
    /\ po.final_status \in ValidFinalStatuses

\* GetPolicyEvaluationOptions.Validate: the error, or NoValue for nil
GetPolicyEvaluationOptionsValidate(o) ==
    IF ~validStringID(o.run_id) THEN ErrInvalidRunID ELSE NoValue

\* OverridePolicyOptions.Validate: the error, or NoValue for nil
OverridePolicyOptionsValidate(o) ==
    IF ~validStringID(o.run_id) THEN ErrInvalidRunID
    ELSE IF o.justification = <<>> THEN ErrInvalidJustification
    ELSE NoValue

(***************************************************************************)
(* Raw upstream payloads.                                                  *)
(***************************************************************************)
Counts == (-1)..MaxCount
UpstreamTotals == {0, 2}
UpstreamStatuses == {"passed", "failed", "unreachable"}
PolicyNames == {"a", "b"}

SeqsUpTo(S, n) == UNION { [1..k -> S] : k \in 0..n }

\* one policy-set outcome of a tfe.PolicyEvaluation
ModernOutcomes ==
    [policy_set_name : PolicyNames, mandatory_failed : 0..1]

\* tfe.PolicyEvaluation as read from a stage
RawModern ==
    [status : UpstreamStatuses,
     passed : Counts, advisory_failed : Counts,
     mandatory_failed : Counts, errored : Counts,
     total : UpstreamTotals,
     outcomes : SeqsUpTo(ModernOutcomes, MaxOutcomes)]

\* one policy-set outcome of a tfe.PolicyCheck
LegacyOutcomes ==
    [policy_name : PolicyNames,
     outcome : {"passed", "failed", "errored"},
     enforcement_level : {"mandatory", "soft-mandatory", "advisory"}]

\* tfe.PolicyCheck
RawLegacy ==
    [status : UpstreamStatuses,
     total : UpstreamTotals,
     outcomes : SeqsUpTo(LegacyOutcomes, MaxOutcomes)]

(***************************************************************************)
(* Evaluation Normalizer.                                                  *)
(***************************************************************************)
MandatoryDetail(name) ==
    [policy_name |-> name, enforcement_level |-> "mandatory",
     status |-> "failed"]

IsMandatoryFailedOutcome(o) == o.mandatory_failed > 0

\* the failed-policy loop without its test of the mandatory-failure count
ModernFailedPoliciesUnfiltered(outcomes) ==
    [i \in 1..Len(outcomes) |-> MandatoryDetail(outcomes[i].policy_set_name)]

\* the failed-policy loop of getPolicyFromTaskStages
ModernFailedPolicies(outcomes) ==
    LET sel == SelectSeq(outcomes, IsMandatoryFailedOutcome)
    IN  [i \in 1..Len(sel) |-> MandatoryDetail(sel[i].policy_set_name)]

\* getPolicyFromTaskStages, after the stage and its evaluation are read
getPolicyFromTaskStages(runID, stageID, policyEval) ==
    [run_id |-> runID,
     policy_stage_id |-> stageID,
     policy_check_id |-> "",
     status |-> policyEval.status,
     requires_override |-> policyEval.mandatory_failed > 0,
     total_count |-> policyEval.passed + policyEval.advisory_failed
                     + policyEval.mandatory_failed + policyEval.errored,
     passed_count |-> policyEval.passed,
     advisory_failed_count |-> policyEval.advisory_failed,
     mandatory_failed_count |-> policyEval.mandatory_failed,
     errored_count |-> policyEval.errored,
     failed_policies |-> ModernFailedPolicies(policyEval.outcomes)]

\* the passed case taken as the default of the switch over the outcome text
IsPassedByDefault(o) == o.outcome \notin {"failed", "errored"}

\* the cases of the switch over the outcome text in getPolicyFromPolicyCheck
IsPassed(o) == o.outcome = "passed"
IsErrored(o) == o.outcome = "errored"
IsMandatoryFailed(o) ==
    o.outcome = "failed" /\ o.enforcement_level = "mandatory"
\* the else branch of the failed case taken only for the advisory level
IsAdvisoryFailedOnlyAdvisory(o) ==
    o.outcome = "failed" /\ o.enforcement_level = "advisory"

IsAdvisoryFailed(o) ==
    o.outcome = "failed" /\ o.enforcement_level # "mandatory"

\* the failed-policy append made for every failed outcome, whatever its level
LegacyFailedPoliciesEveryLevel(outcomes) ==
    LET sel == SelectSeq(outcomes, LAMBDA o : o.outcome = "failed")
    IN  [i \in 1..Len(sel) |-> MandatoryDetail(sel[i].policy_name)]

\* the failed-policy appends of getPolicyFromPolicyCheck
LegacyFailedPolicies(outcomes) ==
    LET sel == SelectSeq(outcomes, IsMandatoryFailed)
    IN  [i \in 1..Len(sel) |-> MandatoryDetail(sel[i].policy_name)]

\* getPolicyFromPolicyCheck
getPolicyFromPolicyCheck(runID, checkID, check) ==
    LET passed    == Len(SelectSeq(check.outcomes, IsPassed))
        mandatory == Len(SelectSeq(check.outcomes, IsMandatoryFailed))
        advisory  == Len(SelectSeq(check.outcomes, IsAdvisoryFailed))
        errored   == Len(SelectSeq(check.outcomes, IsErrored))
    IN  [run_id |-> runID,
         policy_stage_id |-> "",
         policy_check_id |-> checkID,
         status |-> check.status,
         requires_override |-> mandatory > 0,
         total_count |-> passed + advisory + mandatory + errored,
         passed_count |-> passed,
         advisory_failed_count |-> advisory,
         mandatory_failed_count |-> mandatory,
         errored_count |-> errored,
         failed_policies |-> LegacyFailedPolicies(check.outcomes)]

ErrNormalization == Err("Fatal", "normalization")

\* the normalized value returned as built, without the validation step
ValidateNormalizedUnchecked(pe) == Ok(pe)

\* steps 9-11 of GetPolicyEvaluation: validate the normalized value, return
\* it or a fatal error
ValidateNormalized(pe) ==
    IF PolicyEvaluationValidate(pe) THEN Ok(pe) ELSE ErrNormalization

\* normalize(raw): either raw shape to the canonical result
normalize(runID, raw) ==
    IF raw.format = "modern"
    THEN ValidateNormalized(
             getPolicyFromTaskStages(runID, raw.id, raw.payload))
    ELSE ValidateNormalized(
             getPolicyFromPolicyCheck(runID, raw.id, raw.payload))

RawInputs ==
    [format : {"modern"}, id : {"ts-1"}, payload : RawModern]
    \cup [format : {"legacy"}, id : {"pc-1"}, payload : RawLegacy]

(***************************************************************************)
(* Remote Run Gateway: one run, RunA, with its stages, its legacy          *)
(* policy-check reference and the two raw payloads.                        *)
(***************************************************************************)
RunStatuses ==
    {"policy_checking", RunAwaiting, "policy_override",
     "post_plan_completed", "apply_queued", "applied", "discarded",
     "canceled", "force_canceled", "errored"}

SuccessStatuses == {"policy_override", "post_plan_completed", "apply_queued"}
TerminatedStatuses == {"discarded", "canceled", "force_canceled", "errored"}
PendingEvaluationStatuses == {"policy_checking"}

\* the run status transitions the gateway may make on its own
StatusSucc(s) ==
    CASE s = "policy_checking" ->
            {RunAwaiting, "post_plan_completed", "errored", "canceled"}
      [] s = RunAwaiting ->
            {"policy_override", "discarded", "canceled", "force_canceled"}
      [] s = "policy_override" ->
            {"post_plan_completed", "apply_queued", "discarded", "errored"}
      [] s = "post_plan_completed" -> {"apply_queued", "discarded"}
      [] s = "apply_queued" -> {"applied", "errored"}
      [] OTHER -> {}

StageID == "ts-1"
CheckID == "pc-1"

MandatoryEval ==
    [status |-> "failed", passed |-> 1, advisory_failed |-> 0,
     mandatory_failed |-> 1, errored |-> 0, total |-> 0,
     outcomes |-> << [policy_set_name |-> "a", mandatory_failed |-> 1],
                     [policy_set_name |-> "b", mandatory_failed |-> 0] >>]
DriftedEval ==
    [status |-> "passed", passed |-> -1, advisory_failed |-> 1,
     mandatory_failed |-> 0, errored |-> 0, total |-> 2,
     outcomes |-> << >>]
GatewayEvals == {MandatoryEval, DriftedEval}

MandatoryCheck ==
    [status |-> "failed", total |-> 0,
     outcomes |-> << [policy_name |-> "a", outcome |-> "failed",
                      enforcement_level |-> "mandatory"],
                     [policy_name |-> "b", outcome |-> "passed",
                      enforcement_level |-> "advisory"] >>]
AdvisoryCheck ==
    [status |-> "passed", total |-> 2,
     outcomes |-> << [policy_name |-> "b", outcome |-> "failed",
                      enforcement_level |-> "advisory"] >>]
GatewayChecks == {MandatoryCheck, AdvisoryCheck}

\* the payloads the gateway holds for the run: one per format
GatewayPayloads ==
    { [eval |-> MandatoryEval, check |-> MandatoryCheck],
      [eval |-> DriftedEval, check |-> AdvisoryCheck] }

Gateways ==
    { g \in [status : RunStatuses,
             stages : {<< >>, <<StageID>>},
             check_ref : {"", CheckID},
             eval : GatewayEvals,
             check : GatewayChecks] :
        [eval |-> g.eval, check |-> g.check] \in GatewayPayloads }

(***************************************************************************)
(* Format Detector.                                                        *)
(***************************************************************************)
\* detectAPIFormat falling back to legacy whenever no stage is listed
detectAPIFormatLegacyFallback(g) ==
    IF Len(g.stages) > 0 THEN "modern" ELSE "legacy"

\* detectAPIFormat
detectAPIFormat(g) ==
    IF Len(g.stages) > 0 THEN "modern"
    ELSE IF g.check_ref # "" THEN "legacy"
    ELSE "unknown"

(***************************************************************************)
(* Wait Engine: retry.Do over a Fibonacci backoff, capped per step and     *)
(* bounded by a total duration.                                            *)
(***************************************************************************)
Min(a, b) == IF a < b THEN a ELSE b

\* retry.NewFibonacci(PolicyWaitInitialBackoff)
FibInit == <<0, PolicyWaitInitialBackoff>>

\* fibonacciBackoff.Next: the interval, and the next state.  The state is
\* kept saturated at the step cap: beyond it every interval is the cap.
FibNext(st) ==
    LET next == st[1] + st[2]
    IN  [val |-> next,
         st  |-> <<Min(st[2], PolicyWaitMaxBackoff),
                   Min(next, PolicyWaitMaxBackoff)>>]

\* retry.WithCappedDuration(PolicyWaitMaxBackoff, ...)
Capped(val) == IF val > PolicyWaitMaxBackoff THEN PolicyWaitMaxBackoff ELSE val

\* policyWaitBackoffStrategy().Next with the whole sleep granted
BackoffNextUntruncated(st, elapsed, deadline) ==
    LET diff == deadline - elapsed
        val  == Capped(FibNext(st).val)
    IN  IF diff <= 0 THEN [stop |-> TRUE, val |-> 0, st |-> st]
        ELSE [stop |-> FALSE, val |-> val, st |-> FibNext(st).st]

\* policyWaitBackoffStrategy().Next without retry.WithMaxDuration: the
\* capped Fibonacci backoff alone, which never stops
BackoffNextNoMaxDuration(st, elapsed, deadline) ==
    [stop |-> FALSE, val |-> Capped(FibNext(st).val), st |-> FibNext(st).st]

\* policyWaitBackoffStrategy().Next: retry.WithMaxDuration over the capped
\* Fibonacci backoff; elapsed is the time since the strategy was made
BackoffNext(st, elapsed, deadline) ==
    LET diff == deadline - elapsed
        val  == Capped(FibNext(st).val)
    IN  IF diff <= 0 THEN [stop |-> TRUE, val |-> 0, st |-> st]
        ELSE [stop |-> FALSE,
              val  |-> IF val <= 0 \/ val > diff THEN diff ELSE val,
              st   |-> FibNext(st).st]

\* what the probe of the evaluation wait makes of a run status
ProbeEvaluation(status) ==
    IF status \in PendingEvaluationStatuses THEN "pending"
    ELSE IF status \in TerminatedStatuses THEN "failure"
    ELSE "success"

\* the probe of the override wait, a discarded run awaited like a pending one
ProbeOverrideAwaitsDiscarded(status) ==
    IF status \in SuccessStatuses THEN "success"
    ELSE IF status \in TerminatedStatuses \ {"discarded"} THEN "failure"
    ELSE "pending"

\* the probe of the override wait, apply_queued awaited like a pending status
ProbeOverrideAwaitsApplyQueued(status) ==
    IF status \in SuccessStatuses \ {"apply_queued"} THEN "success"
    ELSE IF status \in TerminatedStatuses THEN "failure"
    ELSE "pending"

\* what the probe of the override wait makes of a run status
ProbeOverride(status) ==
    IF status \in SuccessStatuses THEN "success"
    ELSE IF status \in TerminatedStatuses THEN "failure"
    ELSE "pending"

\* the engine's state after a probe, a terminal failure retried like a
\* pending result
EngineAfterProbeRetryFailure(outcome, stop, cancelled) ==
    IF outcome = "success" THEN "Done"
    ELSE IF stop \/ cancelled THEN "TimedOut"
    ELSE "Polling"

\* the engine's state after a probe, the external signal not looked at
\* before the sleep
EngineAfterProbeIgnoreCancel(outcome, stop, cancelled) ==
    IF outcome = "success" THEN "Done"
    ELSE IF outcome = "failure" THEN "Failed"
    ELSE IF stop THEN "TimedOut"
    ELSE "Polling"

\* the engine's state after a probe, a transient gateway error ending the
\* wait like any other error of the read
EngineAfterProbeTransientFails(outcome, stop, cancelled) ==
    IF outcome = "success" THEN "Done"
    ELSE IF outcome \in {"failure", "transient"} THEN "Failed"
    ELSE IF stop \/ cancelled THEN "TimedOut"
    ELSE "Polling"

\* the engine's state after a probe: outcome is what the probe returned,
\* stop whether the backoff is exhausted, cancelled whether the external
\* signal has fired by the end of the probe
EngineAfterProbe(outcome, stop, cancelled) ==
    IF outcome = "success" THEN "Done"
    ELSE IF outcome = "failure" THEN "Failed"
    ELSE IF stop \/ cancelled THEN "TimedOut"
    ELSE "Polling"

\* steps 4-5 of GetPolicyEvaluation with every call treated as fast-fail
AfterProbeNeverWaits(noWait, outcome, stop, cancelled) ==
    IF outcome = "pending" THEN "Pending"
    ELSE EngineAfterProbe(outcome, FALSE, FALSE)

\* steps 4-5 of GetPolicyEvaluation with NoWait ignored
AfterProbeAlwaysWaits(noWait, outcome, stop, cancelled) ==
    EngineAfterProbe(outcome, stop, cancelled)

\* steps 4-5 of GetPolicyEvaluation: with NoWait a pending evaluation is
\* returned as such, without it the wait engine decides
AfterProbe(noWait, outcome, stop, cancelled) ==
    IF noWait
    THEN IF outcome = "pending" THEN "Pending"
         ELSE EngineAfterProbe(outcome, FALSE, FALSE)
    ELSE EngineAfterProbe(outcome, stop, cancelled)

(***************************************************************************)
(* Outcomes of the two operations.                                         *)
(***************************************************************************)
\* validateOverrideEligibility's error: observed and expected status
ErrInvalidRunStatus(observed) ==
    [kind |-> "InvalidState", err |-> "ErrInvalidRunStatus",
     observed |-> observed, expected |-> RunAwaiting]

\* the run was seen discarded, canceled or errored; the two canceled
\* statuses share one error
ErrRunTerminated(status) ==
    [kind |-> "RunTerminated", err |-> "ErrRunTerminated",
     status |-> IF status = "force_canceled" THEN "canceled" ELSE status]

ErrTimeout == Err("Timeout", "ErrTimeout")

\* a rate-limiting or server-side error of the gateway, as the gateway
\* returned it
ErrGatewayTransient == Err("Transient", "gateway error")

\* the probe's read of the run: the error it returns, if any
ProbeRead(found, resp) ==
    IF ~found THEN ErrRunNotFound
    ELSE IF resp = "transient" THEN ErrGatewayTransient
    ELSE NoValue

\* override_complete taken from the stage being overridden alone
OverrideCompleteOnlyOverridden(final) == final = "policy_override"

\* validateOverrideEligibility without the status check
validateOverrideEligibilityAnyStatus(g, runID) ==
    IF runID # RunA THEN ErrRunNotFound ELSE NoValue

\* validateOverrideEligibility: read the run, check its status
validateOverrideEligibility(g, runID) ==
    IF runID # RunA THEN ErrRunNotFound
    ELSE IF g.status # RunAwaiting THEN ErrInvalidRunStatus(g.status)
    ELSE NoValue

\* the override's format choice taking the legacy path whenever no stage
\* is listed, the check reference untested
overrideFormatAssumeLegacy(g, earlier) ==
    IF Len(g.stages) > 0 THEN "modern" ELSE "legacy"

\* OverridePolicy's format, kept from the call before when there was one
overrideFormatCached(g, earlier) ==
    IF earlier # "none" THEN earlier ELSE detectAPIFormat(g)

\* the format OverridePolicy detects on the run it has just read; earlier
\* is what the call before detected
overrideFormat(g, earlier) == detectAPIFormat(g)

\* the wait for the run's status entered after every accepted override
OverrideWaitsOnEveryPath(f) == TRUE

\* whether an accepted override on path f is followed by the wait for the
\* run's status: the modern path is asynchronous, the legacy synchronous
OverrideWaits(f) == f = "modern"

\* the override dispatch made again after the gateway has refused it
DispatchAttemptsRetryRefused(permitted) == IF permitted THEN 1 ELSE 2

\* how often one call invokes the override operation of its path: once,
\* whether the gateway accepts (permitted) or returns an error
DispatchAttempts(permitted) == 1

\* override_complete of a PolicyOverride
OverrideComplete(final) == final \in ValidFinalStatuses \ TerminatedStatuses

\* the PolicyOverride of a call, its initial_status read off the run as it
\* is when the override has ended
ConstructOverrideLateInitialStatus(c, final) ==
    [run_id |-> c.run_id,
     policy_stage_id |-> IF c.format = "modern" THEN c.target ELSE "",
     policy_check_id |-> IF c.format = "legacy" THEN c.target ELSE "",
     justification |-> c.justification,
     initial_status |-> final,
     final_status |-> final,
     override_complete |-> OverrideComplete(final)]

\* the PolicyOverride of a call c whose override ended in status final
ConstructOverride(c, final) ==
    [run_id |-> c.run_id,
     policy_stage_id |-> IF c.format = "modern" THEN c.target ELSE "",
     policy_check_id |-> IF c.format = "legacy" THEN c.target ELSE "",
     justification |-> c.justification,
     initial_status |-> c.initial_status,
     final_status |-> final,
     override_complete |-> OverrideComplete(final)]

\* what the override wait returns, the wait's error dropped
WaitResultErrorDropped(c, g, next, readErr) ==
    IF next \in {"Done", "TimedOut"}
    THEN Ok(ConstructOverride(c, g.status))
    ELSE IF readErr # NoValue THEN readErr
    ELSE ErrRunTerminated(g.status)

\* what the override wait returns once the engine has ended in next:
\* the wait's error, or the PolicyOverride of the final run
WaitResult(c, g, next, readErr) ==
    IF next = "Done" THEN Ok(ConstructOverride(c, g.status))
    ELSE IF next = "Failed"
    THEN IF readErr # NoValue THEN readErr ELSE ErrRunTerminated(g.status)
    ELSE ErrTimeout

\* steps 6-11 of GetPolicyEvaluation, a fast-fail call given the counts
\* alone, without the list of failed policies
FinishGetSummaryOnFastFail(c, g) ==
    LET f == detectAPIFormat(g)
        r == IF f = "modern"
             THEN normalize(c.run_id,
                      [format |-> f, id |-> g.stages[1], payload |-> g.eval])
             ELSE IF f = "legacy"
             THEN normalize(c.run_id,
                      [format |-> f, id |-> g.check_ref, payload |-> g.check])
             ELSE ErrNoPolicyCheck
    IN  IF c.no_wait /\ r.kind = "ok"
        THEN Ok([r.value EXCEPT !.failed_policies = << >>])
        ELSE r

\* steps 6-11 of GetPolicyEvaluation: detect, read the payload, normalize
FinishGet(c, g) ==
    LET f == detectAPIFormat(g)
    IN  IF f = "modern"
        THEN normalize(c.run_id,
                 [format |-> f, id |-> g.stages[1], payload |-> g.eval])
        ELSE IF f = "legacy"
        THEN normalize(c.run_id,
                 [format |-> f, id |-> g.check_ref, payload |-> g.check])
        ELSE ErrNoPolicyCheck

\* the gateway reads FinishGet makes
FinishGetReads(g) == IF detectAPIFormat(g) = "unknown" THEN 1 ELSE 2

\* the reads of the legacy policy check among them
FinishGetCheckReads(g) == IF detectAPIFormat(g) = "legacy" THEN 1 ELSE 0

(***************************************************************************)
(* State.                                                                  *)
(***************************************************************************)
VARIABLES
    gw,     \* the gateway's run
    call,   \* the operation in progress and what it has learnt
    pc,     \* where the operation is: idle, probing, sleeping, done
    eng,    \* the wait engine
    calls,  \* gateway calls made by the operation in progress
    ret,    \* what the operation returned
    nin,    \* the raw input handed to the normalizer
    nout,   \* what the normalizer returned for it
    hist    \* the format the last returned call detected, if it detected

vars == <<gw, call, pc, eng, calls, ret, nin, nout, hist>>

IdleCall ==
    [op |-> "none", run_id |-> << >>, no_wait |-> FALSE,
     justification |-> << >>, deadline |-> 0, format |-> "none",
     initial_status |-> "", target |-> "", accepted |-> FALSE,
     comment_failed |-> FALSE]

IdleEng ==
    [state |-> "Idle", fib |-> FibInit, now |-> 0, wake_at |-> 0,
     cancelled |-> FALSE, probes |-> 0, last |-> "none", latency |-> 0]

NoCalls ==
    [reads |-> 0, check_reads |-> 0, override_stage |-> 0,
     override_check |-> 0, add_comment |-> 0]

Init ==
    /\ gw \in Gateways
    /\ call = IdleCall
    /\ pc = "idle"
    /\ eng = IdleEng
    /\ calls = NoCalls
    /\ ret = NoValue
    /\ nin = NoValue
    /\ nout = NoValue
    /\ hist = "none"

(***************************************************************************)
(* GetPolicyEvaluation, up to its first probe.                             *)
(***************************************************************************)
GetPolicyEvaluation(runID, noWait, deadline) ==
    /\ pc = "idle"
    /\ LET o == [run_id |-> runID, no_wait |-> noWait]
           v == GetPolicyEvaluationOptionsValidate(o)
       IN  /\ call' = [IdleCall EXCEPT !.op = "get", !.run_id = runID,
                           !.no_wait = noWait, !.deadline = deadline]
           /\ IF v # NoValue
              THEN /\ ret' = v
                   /\ pc' = "done"
                   /\ eng' = IdleEng
              ELSE /\ ret' = NoValue
                   /\ pc' = "probing"
                   /\ eng' = [IdleEng EXCEPT
                                 !.state = IF noWait THEN "Idle" ELSE "Polling"]
    /\ calls' = NoCalls
    /\ UNCHANGED <<gw, nin, nout, hist>>

(***************************************************************************)
(* OverridePolicy, up to the wait for the status transition.               *)
(***************************************************************************)
OverridePolicy(runID, justification, deadline) ==
    /\ pc = "idle"
    /\ \E permitted \in BOOLEAN, commentOK \in BOOLEAN,
          syncStatus \in SuccessStatuses :
        LET o == [run_id |-> runID, justification |-> justification]
            v == OverridePolicyOptionsValidate(o)
            f == overrideFormat(gw, hist)
            c0 == [IdleCall EXCEPT !.op = "override", !.run_id = runID,
                      !.justification = justification,
                      !.deadline = deadline]
            c1 == [c0 EXCEPT !.format = f, !.initial_status = gw.status,
                      !.target = IF f = "modern" THEN gw.stages[1]
                                 ELSE gw.check_ref]
            c2 == [c1 EXCEPT !.accepted = TRUE,
                      !.comment_failed = ~commentOK]
            n == DispatchAttempts(permitted)
            fail(e, reads) ==
                /\ ret' = e
                /\ pc' = "done"
                /\ call' = IF reads = 2 THEN [c0 EXCEPT !.format = f] ELSE c0
                /\ calls' = [NoCalls EXCEPT !.reads = reads]
                /\ eng' = IdleEng
                /\ gw' = gw
        IN  IF v # NoValue THEN fail(v, 0)
            ELSE IF validateOverrideEligibility(gw, runID) # NoValue
                 THEN fail(validateOverrideEligibility(gw, runID), 1)
            ELSE IF Len(justification) < MinJustificationLength
                 THEN fail(ErrInvalidJustification, 1)
            ELSE IF f = "unknown" THEN fail(ErrNoPolicyCheck, 2)
            ELSE IF ~permitted
                 THEN /\ ret' = ErrPermissionDenied
                      /\ pc' = "done"
                      /\ call' = c1
                      /\ calls' = [NoCalls EXCEPT !.reads = 2,
                             !.override_stage = IF f = "modern" THEN n ELSE 0,
                             !.override_check = IF f = "legacy" THEN n ELSE 0]
                      /\ eng' = IdleEng
                      /\ gw' = gw
            ELSE IF ~OverrideWaits(f)
                 THEN /\ ret' = Ok(ConstructOverride(c2, syncStatus))
                      /\ pc' = "done"
                      /\ call' = c2
                      /\ calls' = [NoCalls EXCEPT !.reads = 2,
                                      !.override_check = n, !.add_comment = 1]
                      /\ eng' = IdleEng
                      /\ gw' = [gw EXCEPT !.status = syncStatus]
            ELSE /\ ret' = NoValue
                 /\ pc' = "probing"
                 /\ call' = c2
                 /\ calls' = [NoCalls EXCEPT !.reads = 2,
                             !.override_stage = IF f = "modern" THEN n ELSE 0,
                             !.override_check = IF f = "legacy" THEN n ELSE 0,
                             !.add_comment = 1]
                 /\ eng' = [IdleEng EXCEPT !.state = "Polling"]
                 /\ gw' = gw
    /\ UNCHANGED <<nin, nout, hist>>

(***************************************************************************)
(* One probe of the operation in progress, with what follows it: the       *)
(* return of the operation, or the start of the next sleep.                *)
(***************************************************************************)
ProbeResponses == {"ok", "transient"}

Probe ==
    /\ pc = "probing"
    /\ ~eng.cancelled
    /\ \E lat \in 0..MaxProbeLatency, fired \in BOOLEAN,
          resp \in IF call.no_wait THEN {"ok"} ELSE ProbeResponses :
        LET found == call.run_id = RunA
            readErr == ProbeRead(found, resp)
            outcome ==
                IF ~found THEN "failure"
                ELSE IF resp = "transient" THEN "transient"
                ELSE IF call.op = "get" THEN ProbeEvaluation(gw.status)
                ELSE ProbeOverride(gw.status)
            t == eng.now + lat
            b == BackoffNext(eng.fib, t, call.deadline)
            next == AfterProbe(call.no_wait, outcome, b.stop, fired)
            e1 == [eng EXCEPT !.now = t, !.probes = @ + 1, !.last = outcome,
                      !.latency = lat,
                      !.cancelled = fired,
                      !.state = IF call.no_wait THEN @ ELSE next]
        IN  /\ calls' = [calls EXCEPT
                            !.reads =
                                @ + 1 + IF next = "Done" /\ call.op = "get"
                                        THEN FinishGetReads(gw) ELSE 0,
                            !.check_reads =
                                @ + IF next = "Done" /\ call.op = "get"
                                    THEN FinishGetCheckReads(gw) ELSE 0]
            /\ IF next = "Polling"
               THEN /\ eng' = [e1 EXCEPT !.fib = b.st, !.wake_at = t + b.val]
                    /\ pc' = "sleeping"
                    /\ ret' = NoValue
               ELSE /\ eng' = e1
                    /\ pc' = "done"
                    /\ ret' =
                        IF call.op = "override"
                        THEN WaitResult(call, gw, next, readErr)
                        ELSE IF next = "Done" THEN FinishGet(call, gw)
                        ELSE IF next = "Failed"
                        THEN IF readErr # NoValue THEN readErr
                             ELSE ErrRunTerminated(gw.status)
                        ELSE IF next = "Pending" THEN ErrPolicyPending
                        ELSE ErrTimeout
            /\ call' = IF next = "Done" /\ call.op = "get"
                       THEN [call EXCEPT !.format = detectAPIFormat(gw)]
                       ELSE call
    /\ UNCHANGED <<gw, nin, nout, hist>>

\* time passes during a sleep
Tick ==
    /\ pc = "sleeping"
    /\ ~eng.cancelled
    /\ eng.now < eng.wake_at
    /\ eng' = [eng EXCEPT !.now = @ + 1]
    /\ UNCHANGED <<gw, call, pc, calls, ret, nin, nout, hist>>

\* the sleep's timer fires
Wake ==
    /\ pc = "sleeping"
    /\ ~eng.cancelled
    /\ eng.now = eng.wake_at
    /\ pc' = "probing"
    /\ UNCHANGED <<gw, call, eng, calls, ret, nin, nout, hist>>

\* the external signal is seen, at the top of the loop or during a sleep
Interrupt ==
    /\ pc \in {"probing", "sleeping"}
    /\ eng.cancelled
    /\ pc' = "done"
    /\ ret' = ErrTimeout
    /\ eng' = [eng EXCEPT !.state = IF @ = "Polling" THEN "TimedOut" ELSE @]
    /\ UNCHANGED <<gw, call, calls, nin, nout, hist>>

\* the caller takes the result; the next call starts afresh
Return ==
    /\ pc = "done"
    /\ pc' = "idle"
    /\ call' = IdleCall
    /\ eng' = IdleEng
    /\ calls' = NoCalls
    /\ ret' = NoValue
    /\ hist' = IF call.format # "none" THEN call.format ELSE hist
    /\ UNCHANGED <<gw, nin, nout>>

(***************************************************************************)
(* Environment: the external signal, and the gateway's own progress.       *)
(***************************************************************************)
Cancel ==
    /\ pc \in {"probing", "sleeping"}
    /\ ~eng.cancelled
    /\ eng' = [eng EXCEPT !.cancelled = TRUE]
    /\ UNCHANGED <<gw, call, pc, calls, ret, nin, nout, hist>>

GatewayAdvance ==
    /\ \E s \in StatusSucc(gw.status) : gw' = [gw EXCEPT !.status = s]
    /\ UNCHANGED <<call, pc, eng, calls, ret, nin, nout, hist>>

StagesAppear ==
    /\ gw.stages = << >>
    /\ gw' = [gw EXCEPT !.stages = <<StageID>>]
    /\ UNCHANGED <<call, pc, eng, calls, ret, nin, nout, hist>>

\* the total deadlines a wait is configured with
Deadlines == {MaxDeadline - 3, MaxDeadline}

StartGet ==
    \E runID \in RunIDs, noWait \in BOOLEAN, d \in Deadlines :
        GetPolicyEvaluation(runID, noWait, d)

StartOverride ==
    \E runID \in RunIDs, j \in Justifications, d \in Deadlines :
        OverridePolicy(runID, j, d)

Next ==
    \/ StartGet
    \/ StartOverride
    \/ Probe
    \/ Tick
    \/ Wake
    \/ Interrupt
    \/ Return
    \/ Cancel
    \/ GatewayAdvance
    \/ StagesAppear

Spec == Init /\ [][Next]_vars

(***************************************************************************)
(* The normalizer applied to every raw input.                              *)
(***************************************************************************)
\* the service under the scheduling of its own loop: a probe that is due is
\* made, time passes during a sleep, the timer fires, and a signal that
\* has fired is seen
SpecLive ==
    /\ Init
    /\ [][Next]_vars
    /\ WF_vars(Probe)
    /\ WF_vars(Tick)
    /\ WF_vars(Wake)
    /\ WF_vars(Interrupt)

NormInit ==
    /\ gw \in {g \in Gateways : g.status = RunAwaiting /\ g.stages = << >>
                               /\ g.check_ref = "" /\ g.eval = MandatoryEval
                               /\ g.check = MandatoryCheck}
    /\ nin \in RawInputs
    /\ nout = NoValue
    /\ call = IdleCall
    /\ pc = "idle"
    /\ eng = IdleEng
    /\ calls = NoCalls
    /\ ret = NoValue
    /\ hist = "none"

NormalizeModern ==
    /\ nout = NoValue
    /\ nin.format = "modern"
    /\ nout' = normalize(RunA, nin)
    /\ UNCHANGED <<nin, gw, call, pc, eng, calls, ret, hist>>

NormalizeLegacy ==
    /\ nout = NoValue
    /\ nin.format = "legacy"
    /\ nout' = normalize(RunA, nin)
    /\ UNCHANGED <<nin, gw, call, pc, eng, calls, ret, hist>>

NormNext == NormalizeModern \/ NormalizeLegacy

SpecNorm == NormInit /\ [][NormNext]_vars

(***************************************************************************)
(* Properties.                                                             *)
(***************************************************************************)
IsOk(r) == "kind" \in DOMAIN r /\ r.kind = "ok"
IsErr(r) == "kind" \in DOMAIN r /\ r.kind # "ok"

\* the number of policies the raw payload reports, counted without the
\* normalizer: the four counts of a modern payload, the outcomes of a
\* legacy one
RawPolicyCount(raw) ==
    IF raw.format = "modern"
    THEN raw.payload.passed + raw.payload.advisory_failed
         + raw.payload.mandatory_failed + raw.payload.errored
    ELSE Len(raw.payload.outcomes)

ProbeStep == pc = "probing" /\ eng'.probes = eng.probes + 1

\* C2: a GetPolicyEvaluation with no_wait never sleeps, never enters
\* Polling and probes at most once; its probe of a run whose evaluation is
\* still pending ends the call with ErrPolicyPending, and ErrPolicyPending
\* is returned after exactly one probe.
C2_FastFail ==
    /\ [](call.no_wait =>
            /\ pc # "sleeping"
            /\ eng.state # "Polling"
            /\ eng.probes <= 1
            /\ (ret = ErrPolicyPending => eng.probes = 1 /\ pc = "done"))
    /\ [][(/\ call.no_wait
           /\ ProbeStep
           /\ call.run_id = RunA
           /\ gw.status \in PendingEvaluationStatuses)
          => (/\ pc' = "done"
              /\ ret' = ErrPolicyPending
              /\ eng'.probes = 1)]_vars

\* a no_wait call has returned ErrPolicyPending after its one probe
C2_Witness ==
    /\ call.op = "get"
    /\ call.no_wait
    /\ pc = "done"
    /\ ret = ErrPolicyPending
    /\ eng.probes = 1
    /\ calls.reads = 1

MutatingCalls == calls.override_stage + calls.override_check + calls.add_comment

C4_ShortJustificationNoGatewayCall ==
    (/\ call.op = "override"
     /\ pc = "done"
     /\ validStringID(call.run_id)
     /\ Len(call.justification) < MinJustificationLength)
    => (/\ ret = ErrInvalidJustification
        /\ calls = NoCalls)

EngineTerminal == {"Done", "Failed", "TimedOut"}

\* C5: a wait starts in Polling with no probe made; a probe in Polling
\* leads to Done on success, to Failed on a terminal failure, and on a
\* pending result to TimedOut if the deadline has passed or the signal has
\* fired and otherwise stays in Polling, asleep; Polling is left only by
\* these; Done, Failed and TimedOut are kept until the call returns, and
\* no probe is made in them.
C5_WaitStateMachine ==
    [][/\ (pc = "idle" /\ pc' = "probing" /\ ~call'.no_wait)
          => (eng'.state = "Polling" /\ eng'.probes = 0)
       /\ (eng.state = "Idle" /\ eng'.state # "Idle")
          => (pc = "idle" /\ eng'.state = "Polling")
       /\ (eng.state = "Polling" /\ ProbeStep)
          => CASE eng'.last = "success" -> eng'.state = "Done"
               [] eng'.last = "failure" -> eng'.state = "Failed"
               [] OTHER ->
                    IF eng'.cancelled \/ eng'.now >= call.deadline
                    THEN eng'.state = "TimedOut"
                    ELSE eng'.state = "Polling" /\ pc' = "sleeping"
       /\ (eng.state = "Polling" /\ eng'.state # "Polling")
          => \/ ProbeStep /\ eng'.state \in EngineTerminal
             \/ eng.cancelled /\ eng'.state = "TimedOut"
       /\ (eng.state \in EngineTerminal)
          => \/ eng'.state = eng.state /\ eng'.probes = eng.probes
                /\ calls'.reads = calls.reads /\ pc' = "done"
             \/ pc' = "idle" /\ eng'.state = "Idle"]_vars

\* a wait slept, probed again and ended in Done
C5_Witness ==
    /\ eng.state = "Done"
    /\ eng.probes >= 2
    /\ pc = "done"
    /\ IsOk(ret)

\* the outcomes decided by a run status, and the success
StatusBasedKinds == {"ok", "InvalidState", "RunTerminated", "NotFound"}

C7_BackoffBound ==
    eng.state # "Idle" =>
        /\ (pc = "sleeping" =>
                eng.wake_at <= call.deadline /\ eng.now <= eng.wake_at)
        /\ eng.now <= call.deadline + eng.latency
        /\ (eng.now > call.deadline => pc = "done")

\* a wait whose last sleep was cut to end at D and whose last probe ran
\* past D
C7_Witness ==
    /\ eng.state = "TimedOut"
    /\ ~eng.cancelled
    /\ eng.probes >= 3
    /\ eng.wake_at = call.deadline
    /\ eng.now > call.deadline
    /\ eng.now = call.deadline + eng.latency

\* C8: once the external signal has fired in a wait, no probe is made and
\* no time of the wait passes: the only step of the engine is the one to
\* TimedOut, which ends the call with ErrTimeout; and a probe that ends
\* pending with the signal fired leads to TimedOut, not to a sleep.
C8_Cancellation ==
    [][/\ (eng.state = "Polling" /\ eng.cancelled)
          => /\ eng'.probes = eng.probes
             /\ eng'.now = eng.now
             /\ calls' = calls
             /\ (eng' # eng \/ pc' # pc)
                    => (/\ eng'.state = "TimedOut"
                        /\ pc' = "done"
                        /\ ret' = ErrTimeout)
       /\ (eng.state = "Polling" /\ ProbeStep /\ eng'.cancelled
              /\ eng'.last = "pending")
          => (/\ eng'.state = "TimedOut"
              /\ pc' = "done"
              /\ ret' = ErrTimeout)]_vars

\* a wait was cancelled in the middle of a sleep and ended there
C8_Witness ==
    /\ eng.state = "TimedOut"
    /\ eng.cancelled
    /\ eng.probes >= 1
    /\ eng.now < eng.wake_at
    /\ eng.now < call.deadline
    /\ ret = ErrTimeout

\* C9: an OverridePolicy whose override was accepted and whose AddComment
\* failed does not fail for it, and returns a result that differs from the
\* one of the same call with the comment attached.
C9_CommentFailureSurfaced ==
    (/\ call.op = "override"
     /\ pc = "done"
     /\ call.accepted
     /\ call.comment_failed
     /\ eng.state \in {"Idle", "Done"})
    => (/\ "kind" \in DOMAIN ret
        /\ ret.kind \in {"ok", "PartialSuccess"}
        /\ IsOk(ret) =>
              ret # Ok(ConstructOverride(
                         [call EXCEPT !.comment_failed = FALSE],
                         ret.value.final_status)))

GetCompletes == call.op = "get" /\ ProbeStep /\ eng'.last = "success"

ExpectedFormat(g) ==
    CASE g.stages # << >> -> "modern"
      [] g.stages = << >> /\ g.check_ref # "" -> "legacy"
      [] OTHER -> "unknown"

C14_RunTerminated ==
    [][(/\ eng.state = "Polling"
        /\ ProbeStep
        /\ call.run_id = RunA
        /\ gw.status \in {"discarded", "canceled", "force_canceled", "errored"}
        /\ eng'.last # "transient")
       => (/\ eng'.state = "Failed"
           /\ pc' = "done"
           /\ ret'.kind = "RunTerminated"
           /\ ret'.status = IF gw.status = "force_canceled"
                            THEN "canceled" ELSE gw.status
           /\ ret' # ErrTimeout)]_vars

\* an override wait slept, then saw the run discarded and ended in Failed
C14_Witness ==
    /\ call.op = "override"
    /\ eng.state = "Failed"
    /\ eng.probes >= 2
    /\ pc = "done"
    /\ IsErr(ret)
    /\ ret.kind = "RunTerminated"
    /\ ret.status = "discarded"

\* a probe of the wait that follows a modern override, which read the run
OverrideProbeReads ==
    /\ call.op = "override"
    /\ eng.state = "Polling"
    /\ ProbeStep
    /\ eng'.last # "transient"

KthIndex(S, k) == CHOOSE i \in S : Cardinality({j \in S : j <= i}) = k

LegacyCount(outcomes, Test(_)) ==
    Cardinality({i \in DOMAIN outcomes : Test(outcomes[i])})

\* the payload of the four-outcome scenario
FourOutcomes ==
    [format |-> "legacy", id |-> "pc-1",
     payload |->
        [status |-> "failed", total |-> 0,
         outcomes |->
            << [policy_name |-> "a", outcome |-> "passed",
                enforcement_level |-> "advisory"],
               [policy_name |-> "b", outcome |-> "failed",
                enforcement_level |-> "mandatory"],
               [policy_name |-> "a", outcome |-> "failed",
                enforcement_level |-> "advisory"],
               [policy_name |-> "b", outcome |-> "errored",
                enforcement_level |-> "mandatory"] >>]]

\* C18: legacy-path normalization classifies each outcome by its text:
\* passed counts as passed, errored as errored, failed at the mandatory
\* level as mandatory-failed, failed at any other level as
\* advisory-failed; the outcomes [passed, failed/mandatory,
\* failed/advisory, errored] give counts 1, 1, 1, 1 and total_count 4.
C18_LegacyClassification ==
    /\ (nin.format = "legacy" /\ IsOk(nout)) =>
          LET os == nin.payload.outcomes
              pe == nout.value
              P(o) == o.outcome = "passed"
              E(o) == o.outcome = "errored"
              M(o) == o.outcome = "failed"
                      /\ o.enforcement_level = "mandatory"
              A(o) == o.outcome = "failed"
                      /\ o.enforcement_level \in {"soft-mandatory", "advisory"}
          IN  /\ pe.passed_count = LegacyCount(os, P)
              /\ pe.errored_count = LegacyCount(os, E)
              /\ pe.mandatory_failed_count = LegacyCount(os, M)
              /\ pe.advisory_failed_count = LegacyCount(os, A)
    /\ LET r == normalize(RunA, FourOutcomes)
       IN  /\ IsOk(r)
           /\ r.value.passed_count = 1
           /\ r.value.mandatory_failed_count = 1
           /\ r.value.advisory_failed_count = 1
           /\ r.value.errored_count = 1
           /\ r.value.total_count = 4

\* a legacy payload with one mandatory failure and one failure at another,
\* non-advisory level was normalized
C18_Witness ==
    /\ nin.format = "legacy"
    /\ IsOk(nout)
    /\ Len(nin.payload.outcomes) = 2
    /\ nin.payload.outcomes[1].outcome = "failed"
    /\ nin.payload.outcomes[1].enforcement_level = "soft-mandatory"
    /\ nin.payload.outcomes[2].outcome = "failed"
    /\ nin.payload.outcomes[2].enforcement_level = "mandatory"
    /\ nout.value.advisory_failed_count = 1
    /\ nout.value.mandatory_failed_count = 1

\* C19: in every PolicyEvaluation returned, on either path and for every
\* upstream payload, the length of failed_policies is at most
\* mandatory_failed_count + advisory_failed_count.
C19_FailedPoliciesBounded ==
    IsOk(nout) =>
        Len(nout.value.failed_policies) <=
            nout.value.mandatory_failed_count
            + nout.value.advisory_failed_count

\* the PolicyEvaluation derived from the gateway's payload for a run,
\* before validation
DerivedEvaluation(runID, g) ==
    IF detectAPIFormat(g) = "modern"
    THEN getPolicyFromTaskStages(runID, g.stages[1], g.eval)
    ELSE getPolicyFromPolicyCheck(runID, g.check_ref, g.check)

EquivModernOutcomes ==
    [policy_set_name : PolicyNames, mandatory_failed : 0..1,
     advisory_failed : 0..1]

\* the failing entries a modern payload reports, name and level, in order
RECURSIVE ModernFailing(_)
ModernFailing(outcomes) ==
    IF outcomes = << >> THEN << >>
    ELSE LET o == Head(outcomes)
             m == IF o.mandatory_failed > 0
                  THEN << [name |-> o.policy_set_name, level |-> "mandatory"] >>
                  ELSE << >>
             a == IF o.advisory_failed > 0
                  THEN << [name |-> o.policy_set_name, level |-> "advisory"] >>
                  ELSE << >>
         IN  m \o a \o ModernFailing(Tail(outcomes))

\* the failing entries a legacy payload reports, name and level, in order
LegacyFailing(outcomes) ==
    LET sel == SelectSeq(outcomes, LAMBDA o : o.outcome = "failed")
    IN  [i \in 1..Len(sel) |->
            [name |-> sel[i].policy_name, level |-> sel[i].enforcement_level]]

\* the pairs of outcome lists of up to n outcomes, modern and legacy, with
\* the same failing entries
EquivalentOutcomes(n) ==
    LET ModernSeqs == SeqsUpTo(EquivModernOutcomes, n)
        LegacySeqs == SeqsUpTo(LegacyOutcomes, n)
        FailingOfModern == [x \in ModernSeqs |-> ModernFailing(x)]
        FailingOfLegacy == [y \in LegacySeqs |-> LegacyFailing(y)]
    IN  UNION { {x \in ModernSeqs : FailingOfModern[x] = s}
                    \X {y \in LegacySeqs : FailingOfLegacy[y] = s} :
                s \in {FailingOfLegacy[y] : y \in LegacySeqs} }

\* the modern payload equivalent to a legacy one of outcomes ys: the same
\* status, the four counts of ys, the outcomes xs
EquivalentModern(status, total, xs, ys) ==
    LET n(Test(_)) == Cardinality({i \in DOMAIN ys : Test(ys[i])})
    IN  [status |-> status,
         passed |-> n(LAMBDA o : o.outcome = "passed"),
         advisory_failed |->
             n(LAMBDA o : o.outcome = "failed"
                          /\ o.enforcement_level = "advisory"),
         mandatory_failed |->
             n(LAMBDA o : o.outcome = "failed"
                          /\ o.enforcement_level = "mandatory"),
         errored |-> n(LAMBDA o : o.outcome = "errored"),
         total |-> total,
         outcomes |-> xs]

EquivalentPairs(n) ==
    { [modern |-> [format |-> "modern", id |-> "ts-1",
                   payload |-> EquivalentModern(st, tm, xy[1], xy[2])],
       legacy |-> [format |-> "legacy", id |-> "pc-1",
                   payload |-> [status |-> st, total |-> tl,
                                outcomes |-> xy[2]]]] :
        st \in UpstreamStatuses, tm \in {2}, tl \in {0},
        xy \in EquivalentOutcomes(n) }

EquivInit ==
    /\ gw \in {g \in Gateways : g.status = RunAwaiting /\ g.stages = << >>
                               /\ g.check_ref = "" /\ g.eval = MandatoryEval
                               /\ g.check = MandatoryCheck}
    /\ nin \in EquivalentPairs(MaxOutcomes)
    /\ nout = NoValue
    /\ call = IdleCall
    /\ pc = "idle"
    /\ eng = IdleEng
    /\ calls = NoCalls
    /\ ret = NoValue
    /\ hist = "none"

NormalizePair ==
    /\ nout = NoValue
    /\ nout' = [modern |-> normalize(RunA, nin.modern),
                legacy |-> normalize(RunA, nin.legacy)]
    /\ UNCHANGED <<nin, gw, call, pc, eng, calls, ret, hist>>

EquivNext == NormalizePair

SpecEquiv == EquivInit /\ [][EquivNext]_vars

\* a PolicyEvaluation with its stage and check identifiers blanked
WithoutSourceID(pe) ==
    [pe EXCEPT !.policy_stage_id = "", !.policy_check_id = ""]

ValidationCounts == (-1)..1
ValidationRunIDs == {RunA, << >>, <<"R", "-", "1">>}

\* PolicyEvaluation values as a caller of Validate may hold them
PolicyEvaluationCandidates ==
    [run_id : ValidationRunIDs,
     policy_stage_id : {"", "ts-1"},
     policy_check_id : {"", "pc-1"},
     status : {"failed", "unreachable"},
     requires_override : BOOLEAN,
     total_count : (-1)..2,
     passed_count : ValidationCounts,
     advisory_failed_count : ValidationCounts,
     mandatory_failed_count : ValidationCounts,
     errored_count : ValidationCounts,
     failed_policies : {<< >>, << MandatoryDetail("") >>}]

\* PolicyOverride values as a caller of Validate may hold them
PolicyOverrideCandidates ==
    [run_id : ValidationRunIDs,
     policy_stage_id : {"", "ts-1"},
     policy_check_id : {"", "pc-1"},
     justification : {Just(0), Just(2), Just(10)},
     initial_status : {RunAwaiting, "policy_checking"},
     final_status : {"", "policy_override", "discarded", "canceled",
                     RunAwaiting},
     override_complete : BOOLEAN]

ValidationInputs ==
    [entity : {"PolicyEvaluation"}, value : PolicyEvaluationCandidates]
    \cup [entity : {"PolicyOverride"}, value : PolicyOverrideCandidates]

ValInit ==
    /\ gw \in {g \in Gateways : g.status = RunAwaiting /\ g.stages = << >>
                               /\ g.check_ref = "" /\ g.eval = MandatoryEval
                               /\ g.check = MandatoryCheck}
    /\ nin \in ValidationInputs
    /\ nout = NoValue
    /\ call = IdleCall
    /\ pc = "idle"
    /\ eng = IdleEng
    /\ calls = NoCalls
    /\ ret = NoValue
    /\ hist = "none"

ValidateEvaluation ==
    /\ nout = NoValue
    /\ nin.entity = "PolicyEvaluation"
    /\ nout' = [accepted |-> PolicyEvaluationValidate(nin.value)]
    /\ UNCHANGED <<nin, gw, call, pc, eng, calls, ret, hist>>

ValidateOverride ==
    /\ nout = NoValue
    /\ nin.entity = "PolicyOverride"
    /\ nout' = [accepted |-> PolicyOverrideValidate(nin.value)]
    /\ UNCHANGED <<nin, gw, call, pc, eng, calls, ret, hist>>

ValNext == ValidateEvaluation \/ ValidateOverride

SpecValidate == ValInit /\ [][ValNext]_vars

\* C22: exactly one of policy_stage_id and policy_check_id is non-empty in
\* every PolicyEvaluation and every PolicyOverride that validation
\* accepts: both empty is rejected and both set is rejected, for both
\* entities.
C22_ExactlyOneIdentifier ==
    (nout # NoValue /\ nout.accepted) =>
        (nin.value.policy_stage_id = "") # (nin.value.policy_check_id = "")

\* C23: the status of every PolicyEvaluation returned is one of passed,
\* failed, errored, pending, running, whatever status string the upstream
\* stage evaluation or legacy check carries.
C23_StatusInEnumeration ==
    IsOk(nout) =>
        nout.value.status \in
            {"passed", "failed", "errored", "pending", "running"}

\* the run identifiers drawn that match ^[a-z]+-[a-zA-Z0-9]+$
WellFormedRunIDs == {<<"r", "-", "1">>, <<"r", "u", "-", "R">>}

\* C24: GetPolicyEvaluation and OverridePolicy called with a run identifier
\* that is empty or does not match ^[a-z]+-[a-zA-Z0-9]+$ return
\* InvalidInput (ErrInvalidRunID) at once, before any gateway call and
\* without any probe or retry.
C24_InvalidRunIDSynchronous ==
    /\ []((call.op \in {"get", "override"}
           /\ call.run_id \notin WellFormedRunIDs) =>
            /\ pc = "done"
            /\ ret = ErrInvalidRunID
            /\ ret.kind = "InvalidInput"
            /\ calls = NoCalls
            /\ eng.probes = 0
            /\ eng.state = "Idle")
    /\ [][(/\ pc = "idle"
           /\ call'.op \in {"get", "override"}
           /\ call'.run_id \notin WellFormedRunIDs)
          => (/\ pc' = "done"
              /\ ret' = ErrInvalidRunID
              /\ calls' = NoCalls
              /\ gw' = gw)]_vars

\* an override with an identifier that has a trailing hyphen, and a
\* justification of sufficient length, was refused
C24_Witness ==
    /\ call.op = "override"
    /\ call.run_id = <<"r", "-", "1", "-">>
    /\ Len(call.justification) >= 10
    /\ pc = "done"
    /\ ret = ErrInvalidRunID
    /\ calls.reads = 0

\* C25: OverridePolicy checks its preconditions in the order run exists,
\* run status equals post_plan_awaiting_decision, justification length
\* >= 10, all before any mutating gateway call; so for an existing run in
\* the wrong status and a too-short justification the error reported is
\* the invalid-status one, and no mutating call has been made.
C25_PreconditionOrder ==
    [][(/\ pc = "idle"
        /\ call'.op = "override"
        /\ call'.run_id = RunA
        /\ gw.status # "post_plan_awaiting_decision"
        /\ Len(call'.justification) < 10)
       => (/\ pc' = "done"
           /\ IsErr(ret')
           /\ ret'.kind = "InvalidState"
           /\ calls'.override_stage = 0
           /\ calls'.override_check = 0
           /\ calls'.add_comment = 0)]_vars

\* C26: when OverridePolicy finds that the run has neither a stage nor a
\* legacy policy-check reference it returns the NotFound error
\* ErrNoPolicyCheck without invoking OverrideStage, OverrideLegacyCheck or
\* AddComment, and without any probe or retry.
C26_NoEvaluationNoOverride ==
    /\ []((call.op = "override" /\ ret = ErrNoPolicyCheck) =>
            /\ ret.kind = "NotFound"
            /\ pc = "done"
            /\ MutatingCalls = 0
            /\ eng.probes = 0
            /\ eng.state = "Idle")
    /\ [][(/\ pc = "idle"
           /\ call'.op = "override"
           /\ call'.run_id = RunA
           /\ Len(call'.justification) >= 10
           /\ gw.status = "post_plan_awaiting_decision"
           /\ gw.stages = << >>
           /\ gw.check_ref = "")
          => (/\ pc' = "done"
              /\ ret' = ErrNoPolicyCheck
              /\ calls'.override_stage = 0
              /\ calls'.override_check = 0
              /\ calls'.add_comment = 0
              /\ gw' = gw)]_vars

\* an override of an awaiting run without stage or check reference ended
\* with ErrNoPolicyCheck after its reads
C26_Witness ==
    /\ call.op = "override"
    /\ pc = "done"
    /\ ret = ErrNoPolicyCheck
    /\ gw.stages = << >>
    /\ gw.check_ref = ""
    /\ gw.status = "post_plan_awaiting_decision"
    /\ Len(call.justification) >= 10
    /\ calls.reads > 0

C28_Termination ==
    /\ (pc \in {"probing", "sleeping"}) ~>
           (pc = "done" /\ eng.state \in {"Idle", "Done", "Failed", "TimedOut"})
    /\ [](eng.probes <= call.deadline + 1)
    /\ [](pc = "sleeping" => eng.wake_at <= call.deadline)
    /\ []((pc = "done" /\ eng.state # "Idle") =>
            eng.state \in {"Done", "Failed", "TimedOut"})

\* a wait that saw a still-pending result at every probe, four of them,
\* ended TimedOut
C28_Witness ==
    /\ pc = "done"
    /\ eng.state = "TimedOut"
    /\ eng.probes >= 4
    /\ eng.last = "pending"
    /\ ~eng.cancelled
    /\ ret = ErrTimeout

\* C29: default waiting mode: a GetPolicyEvaluation with no_wait = false
\* never returns the Pending condition; while the upstream evaluation is
\* pending it keeps polling, each pending probe followed by a sleep of the
\* backoff unless the wait has timed out; and when the evaluation has
\* completed at a probe the call returns the normalized PolicyEvaluation
\* of the completed evaluation.
C29_DefaultModeWaits ==
    /\ []((call.op = "get" /\ ~call.no_wait) =>
            /\ ret # ErrPolicyPending
            /\ (IsErr(ret) => ret.kind # "Pending")
            /\ eng.state # "Pending")
    /\ [][(/\ call.op = "get"
           /\ ~call.no_wait
           /\ ProbeStep
           /\ call.run_id = RunA
           /\ eng'.last # "transient"
           /\ gw.status \in PendingEvaluationStatuses)
          => \/ /\ pc' = "sleeping"
                /\ eng'.state = "Polling"
                /\ eng'.wake_at > eng'.now
                /\ ret' = NoValue
             \/ /\ pc' = "done"
                /\ eng'.state = "TimedOut"
                /\ ret' = ErrTimeout]_vars
    /\ [][(/\ call.op = "get"
           /\ ~call.no_wait
           /\ ProbeStep
           /\ call.run_id = RunA
           /\ eng'.last # "transient"
           /\ gw.status \notin PendingEvaluationStatuses
           /\ gw.status \notin TerminatedStatuses
           /\ detectAPIFormat(gw) # "unknown"
           /\ PolicyEvaluationValidate(DerivedEvaluation(call.run_id, gw)))
          => (/\ pc' = "done"
              /\ eng'.state = "Done"
              /\ ret' = Ok(DerivedEvaluation(call.run_id, gw)))]_vars

\* a waiting get slept after a probe that did not complete and returned
\* the value of the completed evaluation at a later probe
C29_Witness ==
    /\ call.op = "get"
    /\ ~call.no_wait
    /\ pc = "done"
    /\ eng.probes >= 2
    /\ eng.now > 0
    /\ eng.state = "Done"
    /\ IsOk(ret)
    /\ ret.value.requires_override

(***************************************************************************)
(* Two calls in progress at once, for different runs: each call's gateway  *)
(* operations are steps of their own, interleaved with the other call's.   *)
(* The gateway changes a run only at an override in this specification.    *)
(***************************************************************************)
Procs == {1, 2}
ConcRunOf(p) == IF p = 1 THEN RunA ELSE RunB

\* the runs as the two calls may find them
ConcRuns ==
    {g \in Gateways : /\ g.status \in {"policy_checking", RunAwaiting,
                                        "discarded"}
                      /\ g.eval = MandatoryEval
                      /\ g.check = MandatoryCheck}

\* the requests: a fast-fail GetPolicyEvaluation or an OverridePolicy
ConcRequests(p) ==
    [op : {"get"}, run_id : {ConcRunOf(p)}, justification : {Just(0)}]
    \cup [op : {"override"}, run_id : {ConcRunOf(p)},
          justification : {Just(2), Just(10)}]

\* a call that has not made its first gateway operation
ConcStart(req) ==
    [op |-> req.op, run_id |-> req.run_id,
     justification |-> req.justification, format |-> "none",
     initial_status |-> "", target |-> "", final |-> ""]

\* one gateway operation of a call c that stands at pos, against its run g;
\* h is the format detected last by any call.  The result gives the call,
\* its position, the run, the format detected last and what is returned.
ConcStep(c, pos, g, h) ==
    LET end(r) == [call |-> c, pos |-> "done", g |-> g, hist |-> h, ret |-> r]
    IN  IF pos = "start" /\ c.op = "get"
        THEN LET v == GetPolicyEvaluationOptionsValidate(
                          [run_id |-> c.run_id, no_wait |-> TRUE])
                 o == ProbeEvaluation(g.status)
                 f == detectAPIFormat(g)
             IN  IF v # NoValue THEN end(v)
                 ELSE IF o = "pending" THEN end(ErrPolicyPending)
                 ELSE IF o = "failure" THEN end(ErrRunTerminated(g.status))
                 ELSE [call |-> [c EXCEPT !.format = f], pos |-> "payload",
                       g |-> g, hist |-> IF f # "unknown" THEN f ELSE h,
                       ret |-> NoValue]
        ELSE IF pos = "payload"
        THEN end(FinishGet(c, g))
        ELSE IF pos = "start"
        THEN LET v == OverridePolicyOptionsValidate(
                          [run_id |-> c.run_id,
                           justification |-> c.justification])
                 f == overrideFormat(g, h)
             IN  IF v # NoValue THEN end(v)
                 ELSE IF g.status # RunAwaiting
                 THEN end(ErrInvalidRunStatus(g.status))
                 ELSE IF Len(c.justification) < MinJustificationLength
                 THEN end(ErrInvalidJustification)
                 ELSE IF f = "unknown" THEN end(ErrNoPolicyCheck)
                 ELSE [call |-> [c EXCEPT
                                   !.format = f,
                                   !.initial_status = g.status,
                                   !.target =
                                       IF f = "legacy" THEN g.check_ref
                                       ELSE IF g.stages # << >>
                                       THEN g.stages[1] ELSE ""],
                       pos |-> "dispatch", g |-> g, hist |-> f,
                       ret |-> NoValue]
        ELSE IF pos = "dispatch"
        THEN [call |-> [c EXCEPT !.final = "policy_override"],
              pos |-> "comment",
              g |-> [g EXCEPT !.status = "policy_override"],
              hist |-> h, ret |-> NoValue]
        ELSE IF pos = "comment"
        THEN IF OverrideWaits(c.format)
             THEN [call |-> c, pos |-> "wait", g |-> g, hist |-> h,
                   ret |-> NoValue]
             ELSE end(Ok(ConstructOverride(c, c.final)))
        ELSE LET o == ProbeOverride(g.status)
             IN  IF o = "success" THEN end(Ok(ConstructOverride(c, g.status)))
                 ELSE IF o = "failure" THEN end(ErrRunTerminated(g.status))
                 ELSE end(ErrTimeout)

ConcInit ==
    /\ gw \in [{RunA, RunB} -> ConcRuns]
    /\ nin \in {r \in [Procs -> UNION {ConcRequests(p) : p \in Procs}] :
                   \A p \in Procs : r[p] \in ConcRequests(p)}
    /\ nout = gw
    /\ call = [p \in Procs |-> ConcStart(nin[p])]
    /\ pc = [p \in Procs |-> "start"]
    /\ ret = [p \in Procs |-> NoValue]
    /\ hist = "none"
    /\ eng = IdleEng
    /\ calls = NoCalls

\* the next gateway operation of the call of p
ConcAct(p) ==
    /\ pc[p] # "done"
    /\ LET run == call[p].run_id
           s == ConcStep(call[p], pc[p], gw[run], hist)
       IN  /\ call' = [call EXCEPT ![p] = s.call]
           /\ pc' = [pc EXCEPT ![p] = s.pos]
           /\ gw' = [gw EXCEPT ![run] = s.g]
           /\ ret' = [ret EXCEPT ![p] = s.ret]
           /\ hist' = s.hist
    /\ UNCHANGED <<nin, nout, eng, calls>>

FirstCallStep == ConcAct(1)
SecondCallStep == ConcAct(2)

ConcNext == FirstCallStep \/ SecondCallStep

SpecConc == ConcInit /\ [][ConcNext]_vars

\* what a call returns when it runs alone from s: its operations one after
\* the other, nothing else happening
RECURSIVE AloneRun(_)
AloneRun(s) ==
    IF s.pos = "done" THEN s.ret
    ELSE AloneRun(ConcStep(s.call, s.pos, s.g, s.hist))

SameRunMaxProbes == 2

\* the run as the two calls may find it
SameRunGateways ==
    {g \in Gateways : /\ g.status \in {"policy_checking", RunAwaiting,
                                        "discarded"}
                      /\ g.eval = MandatoryEval
                      /\ g.check = MandatoryCheck}

\* the two requests: both for RunA, each with a justification of its own
SameRunRequests(p) ==
    [op : {"override"}, run_id : {RunA},
     justification : {Just(2), Just(MinJustificationLength + p - 1)}]

\* the gateway rejects an override of a run that is neither awaiting the
\* decision nor already overridden
ErrOverrideRejected == Err("Gateway", "error overriding")

\* the gateway's answer to an override dispatch: whether it accepts, and the
\* run afterwards.  An override of a run already overridden is accepted and
\* changes nothing; the legacy override completes in the call, with the
\* status confirmed.
GatewayOverride(g, f, confirmed) ==
    IF g.status = RunAwaiting
    THEN [accepted |-> TRUE,
          g |-> IF f = "legacy" THEN [g EXCEPT !.status = confirmed] ELSE g]
    ELSE IF g.status \in SuccessStatuses
    THEN [accepted |-> TRUE, g |-> g]
    ELSE [accepted |-> FALSE, g |-> g]

\* final_status of the synchronous path taken as the status an override is
\* expected to confirm, the gateway's answer not looked at
DispatchFinalAssumed(after, confirmed) == confirmed

\* final_status of the synchronous path: the status of the run as the
\* gateway's answer to the dispatch gives it
DispatchFinal(after, confirmed) == after.status

SameRunInit ==
    /\ gw \in SameRunGateways
    /\ nin \in {r \in [Procs -> UNION {SameRunRequests(p) : p \in Procs}] :
                   \A p \in Procs : r[p] \in SameRunRequests(p)}
    /\ nout = {gw.status}
    /\ call = [p \in Procs |-> ConcStart(nin[p])]
    /\ pc = [p \in Procs |-> "start"]
    /\ ret = [p \in Procs |-> NoValue]
    /\ hist = "none"
    /\ eng = [p \in Procs |-> 0]
    /\ calls = [p \in Procs |-> NoCalls]

\* the call of p ends with r
SameRunEnd(p, r) ==
    /\ pc' = [pc EXCEPT ![p] = "done"]
    /\ ret' = [ret EXCEPT ![p] = r]

\* steps 1-3 of OverridePolicy: validate the options, read the run, check
\* its status and the justification's length
SameRunRead(p) ==
    /\ pc[p] = "start"
    /\ LET c == call[p]
           v == OverridePolicyOptionsValidate(
                    [run_id |-> c.run_id, justification |-> c.justification])
           e == validateOverrideEligibility(gw, c.run_id)
       IN  /\ calls' = [calls EXCEPT ![p].reads = IF v # NoValue THEN 0 ELSE 1]
           /\ IF v # NoValue THEN SameRunEnd(p, v) /\ call' = call
              ELSE IF e # NoValue THEN SameRunEnd(p, e) /\ call' = call
              ELSE IF Len(c.justification) < MinJustificationLength
              THEN SameRunEnd(p, ErrInvalidJustification) /\ call' = call
              ELSE /\ pc' = [pc EXCEPT ![p] = "detect"]
                   /\ call' = [call EXCEPT ![p].initial_status = gw.status]
                   /\ ret' = ret
    /\ UNCHANGED <<gw, nin, nout, hist, eng>>

\* step 4: detect the format on the run
SameRunDetect(p) ==
    /\ pc[p] = "detect"
    /\ LET f == overrideFormat(gw, hist)
       IN  /\ calls' = [calls EXCEPT ![p].reads = @ + 1]
           /\ IF f = "unknown"
              THEN /\ SameRunEnd(p, ErrNoPolicyCheck)
                   /\ call' = call
                   /\ hist' = hist
              ELSE /\ pc' = [pc EXCEPT ![p] = "dispatch"]
                   /\ call' = [call EXCEPT
                                 ![p].format = f,
                                 ![p].target = IF f = "modern" THEN gw.stages[1]
                                               ELSE gw.check_ref]
                   /\ ret' = ret
                   /\ hist' = f
    /\ UNCHANGED <<gw, nin, nout, eng>>

\* the comment attached whatever the dispatch returned
AfterDispatchAlwaysComment(accepted) == "comment"

\* where a call goes after its dispatch: on to the audit comment when the
\* gateway accepted the override, back to the caller on an error
AfterDispatch(accepted) == IF accepted THEN "comment" ELSE "done"

\* step 5: dispatch the override on the detected path
SameRunDispatch(p) ==
    /\ pc[p] = "dispatch"
    /\ \E permitted \in BOOLEAN, confirmed \in SuccessStatuses :
        LET c == call[p]
            a == GatewayOverride(gw, c.format, confirmed)
        IN  /\ calls' = [calls EXCEPT
                           ![p].override_stage =
                               @ + IF c.format = "modern" THEN 1 ELSE 0,
                           ![p].override_check =
                               @ + IF c.format = "legacy" THEN 1 ELSE 0]
            /\ IF ~permitted
               THEN /\ pc' = [pc EXCEPT ![p] = AfterDispatch(FALSE)]
                    /\ ret' = [ret EXCEPT ![p] = ErrPermissionDenied]
                    /\ UNCHANGED <<gw, nout, call>>
               ELSE IF ~a.accepted
               THEN /\ pc' = [pc EXCEPT ![p] = AfterDispatch(FALSE)]
                    /\ ret' = [ret EXCEPT ![p] = ErrOverrideRejected]
                    /\ UNCHANGED <<gw, nout, call>>
               ELSE /\ pc' = [pc EXCEPT ![p] = AfterDispatch(TRUE)]
                    /\ gw' = a.g
                    /\ nout' = nout \cup {a.g.status}
                    /\ call' = [call EXCEPT
                                  ![p].final = DispatchFinal(a.g, confirmed)]
                    /\ ret' = ret
    /\ UNCHANGED <<nin, hist, eng>>

\* step 6: attach the audit comment; the synchronous path returns after it
SameRunComment(p) ==
    /\ pc[p] = "comment"
    /\ calls' = [calls EXCEPT ![p].add_comment = @ + 1]
    /\ IF OverrideWaits(call[p].format)
       THEN /\ pc' = [pc EXCEPT ![p] = "wait"]
            /\ ret' = ret
       ELSE SameRunEnd(p, Ok(ConstructOverride(call[p], call[p].final)))
    /\ UNCHANGED <<gw, call, nin, nout, hist, eng>>

\* step 8: one probe of the wait for the run's status
SameRunProbe(p) ==
    /\ pc[p] = "wait"
    /\ LET o == ProbeOverride(gw.status)
       IN  /\ eng' = [eng EXCEPT ![p] = @ + 1]
           /\ calls' = [calls EXCEPT ![p].reads = @ + 1]
           /\ IF o = "success"
              THEN SameRunEnd(p, Ok(ConstructOverride(call[p], gw.status)))
              ELSE IF o = "failure"
              THEN SameRunEnd(p, ErrRunTerminated(gw.status))
              ELSE IF eng[p] + 1 >= SameRunMaxProbes
              THEN SameRunEnd(p, ErrTimeout)
              ELSE UNCHANGED <<pc, ret>>
    /\ UNCHANGED <<gw, call, nin, nout, hist>>

\* the next gateway operation of the call of p
SameRunAct(p) ==
    \/ SameRunRead(p)
    \/ SameRunDetect(p)
    \/ SameRunDispatch(p)
    \/ SameRunComment(p)
    \/ SameRunProbe(p)

SameRunFirstCall == SameRunAct(1)
SameRunSecondCall == SameRunAct(2)

\* the gateway moves the run on
SameRunGatewayAdvance ==
    /\ \E s \in StatusSucc(gw.status) :
        /\ gw' = [gw EXCEPT !.status = s]
        /\ nout' = nout \cup {s}
    /\ UNCHANGED <<call, pc, eng, calls, ret, nin, hist>>

SameRunNext ==
    \/ SameRunFirstCall
    \/ SameRunSecondCall
    \/ SameRunGatewayAdvance

\* each call that can make a step eventually makes it
SpecSameRun ==
    /\ SameRunInit
    /\ [][SameRunNext]_vars
    /\ WF_vars(SameRunFirstCall)
    /\ WF_vars(SameRunSecondCall)

UpstreamEvaluation(g) ==
    [format |-> detectAPIFormat(g),
     payload |-> IF detectAPIFormat(g) = "modern" THEN g.eval
                 ELSE IF detectAPIFormat(g) = "legacy" THEN g.check
                 ELSE NoValue]

RepeatInit ==
    /\ gw \in Gateways
    /\ call = IdleCall
    /\ pc = "idle"
    /\ eng = IdleEng
    /\ calls = NoCalls
    /\ ret = NoValue
    /\ nin = NoValue
    /\ nout = NoValue
    /\ hist = "none"

RepeatGet ==
    \E noWait \in BOOLEAN : GetPolicyEvaluation(RunA, noWait, MaxDeadline - 3)

\* the caller takes the result and keeps it, with the evaluation it was
\* made from
RepeatReturn ==
    /\ pc = "done"
    /\ pc' = "idle"
    /\ call' = IdleCall
    /\ eng' = IdleEng
    /\ calls' = NoCalls
    /\ ret' = NoValue
    /\ hist' = IF call.format # "none" THEN call.format ELSE hist
    /\ nout' = IF ret.kind = "ok" THEN ret ELSE nout
    /\ nin' = IF ret.kind = "ok" THEN UpstreamEvaluation(gw) ELSE nin
    /\ UNCHANGED gw

\* the gateway's own progress, while no result is waiting to be taken
RepeatGatewayAdvance == pc # "done" /\ GatewayAdvance
RepeatStagesAppear == pc # "done" /\ StagesAppear

RepeatNext ==
    \/ RepeatGet
    \/ Probe
    \/ Tick
    \/ Wake
    \/ Interrupt
    \/ Cancel
    \/ RepeatReturn
    \/ RepeatGatewayAdvance
    \/ RepeatStagesAppear

SpecRepeat == RepeatInit /\ [][RepeatNext]_vars

UpstreamPolicyNames == PolicyNames \cup {""}

\* raw payloads with consistent counts and outcomes of any name
DetailInputs ==
    [format : {"modern"}, id : {"ts-1"},
     payload : [status : {"passed", "failed"},
                passed : 0..1, advisory_failed : 0..1,
                mandatory_failed : 0..1, errored : 0..1,
                total : UpstreamTotals,
                outcomes : SeqsUpTo([policy_set_name : UpstreamPolicyNames,
                                     mandatory_failed : 0..1],
                                    MaxOutcomes)]]
    \cup [format : {"legacy"}, id : {"pc-1"},
          payload : [status : {"passed", "failed"},
                     total : UpstreamTotals,
                     outcomes : SeqsUpTo([policy_name : UpstreamPolicyNames,
                                          outcome : {"passed", "failed",
                                                     "errored", "unknown"},
                                          enforcement_level :
                                              {"mandatory", "advisory"}],
                                         MaxOutcomes)]]

DetailInit ==
    /\ gw \in {g \in Gateways : g.status = RunAwaiting /\ g.stages = << >>
                               /\ g.check_ref = "" /\ g.eval = MandatoryEval
                               /\ g.check = MandatoryCheck}
    /\ nin \in DetailInputs
    /\ nout = NoValue
    /\ call = IdleCall
    /\ pc = "idle"
    /\ eng = IdleEng
    /\ calls = NoCalls
    /\ ret = NoValue
    /\ hist = "none"

SpecDetail == DetailInit /\ [][NormNext]_vars

\* C33: every PolicyDetail in the failed_policies of a returned
\* PolicyEvaluation has a non-empty policy_name, an enforcement_level that
\* is mandatory or advisory and a status that is failed or errored, also
\* when the upstream outcome carries no policy or policy-set name.
C33_FailedPoliciesValid ==
    (nout # NoValue /\ IsOk(nout)) =>
        \A i \in 1..Len(nout.value.failed_policies) :
            PolicyDetailValidate(nout.value.failed_policies[i])

\* C34: nothing but the polling probe is retried: within one OverridePolicy
\* call the override operation (OverrideStage or OverrideLegacyCheck) is
\* invoked at most once and AddComment at most once, also when the call
\* fails or times out; neither is invoked again during the wait; and an
\* error of the override dispatch is returned at once, after the single
\* attempt, with no comment and no probe made.
C34_OnlyProbeRetried ==
    /\ [](/\ calls.override_stage + calls.override_check <= 1
          /\ calls.add_comment <= 1)
    /\ [][(pc \in {"probing", "sleeping", "done"} /\ pc' # "idle") =>
            (/\ calls'.override_stage = calls.override_stage
             /\ calls'.override_check = calls.override_check
             /\ calls'.add_comment = calls.add_comment)]_vars
    /\ []((call.op = "override" /\ ret = ErrPermissionDenied) =>
            /\ pc = "done"
            /\ calls.override_stage + calls.override_check = 1
            /\ calls.add_comment = 0
            /\ eng.probes = 0)

\* a modern override has timed out after several probes, with one dispatch
\* and one comment made
C34_Witness ==
    /\ pc = "done"
    /\ call.op = "override"
    /\ ret = ErrTimeout
    /\ eng.probes >= 2
    /\ calls.reads >= 4
    /\ calls.override_stage = 1
    /\ calls.add_comment = 1

\* the override dispatches and the comments a call has made
Dispatches(p) == calls[p].override_stage + calls[p].override_check

\* C35: ordering of the override protocol: AddComment is invoked only after
\* the gateway has accepted the call's override dispatch and before the
\* call's first probe of the run status; a probe is made only on the modern
\* path and only after the comment; and when the dispatch returns an error
\* the call makes no AddComment and no probe.
C35_OverrideOrdering ==
    /\ [][\A p \in Procs :
            calls'[p].add_comment > calls[p].add_comment =>
                (/\ Dispatches(p) = 1
                 /\ pc[p] = "comment"
                 /\ ret[p] = NoValue
                 /\ call[p].final \in nout
                 /\ eng[p] = 0
                 /\ eng'[p] = 0)]_vars
    /\ [][\A p \in Procs :
            eng'[p] > eng[p] =>
                (/\ call[p].format = "modern"
                 /\ calls[p].add_comment = 1
                 /\ Dispatches(p) = 1)]_vars
    /\ [](\A p \in Procs :
            ret[p] \in {ErrPermissionDenied, ErrOverrideRejected} =>
                /\ pc[p] = "done"
                /\ Dispatches(p) = 1
                /\ calls[p].add_comment = 0
                /\ eng[p] = 0)

\* one call's dispatch was refused and it returned with no comment and no
\* probe made, while the other's was accepted on the modern path, commented
\* and then probed
C35_Witness ==
    /\ ret[1] = ErrPermissionDenied
    /\ calls[1].add_comment = 0
    /\ call[2].format = "modern"
    /\ calls[2].override_stage = 1
    /\ calls[2].add_comment = 1
    /\ eng[2] >= 1

\* the k-th Fibonacci number: 1, 1, 2, 3, 5, ...
RECURSIVE Fibonacci(_)
Fibonacci(k) == IF k <= 2 THEN 1 ELSE Fibonacci(k - 1) + Fibonacci(k - 2)

\* the k-th interval of the schedule 10s, 10s, 20s, 30s, 30s, ...: the
\* Fibonacci sequence scaled by the floor, capped per step
ScheduledInterval(k) ==
    Min(PolicyWaitInitialBackoff * Fibonacci(k), PolicyWaitMaxBackoff)

\* a probe after which the wait goes to sleep
SleepStarts == eng'.probes = eng.probes + 1 /\ pc' = "sleeping"

\* C36: the sleep intervals of a wait form the Fibonacci sequence scaled by
\* the initial floor, capped per step: the k-th sleep lasts 10s, 10s, 20s,
\* 30s, 30s, ... for k = 1, 2, 3, 4, 5, ..., or the time left to the total
\* deadline when that is less; the intervals are at most the cap, and the
\* deadline applies whatever the cap.
C36_BackoffSchedule ==
    [][SleepStarts =>
        /\ eng'.wake_at - eng'.now
               = Min(ScheduledInterval(eng'.probes),
                     call.deadline - eng'.now)
        /\ eng'.wake_at - eng'.now <= PolicyWaitMaxBackoff
        /\ eng'.wake_at <= call.deadline]_vars

RecognizedOutcomes == {"passed", "failed", "errored"}
IsRecognized(o) == o.outcome \in RecognizedOutcomes

\* C38: legacy normalization is total over outcome texts: every legacy
\* payload is normalized to a value; an outcome whose text is none of
\* passed, failed, errored changes no count and adds no failed-policy entry
\* (the result is that of the payload without such outcomes), so total_count
\* is at most the number of upstream outcomes, with equality exactly when
\* every outcome is recognized; and failed_policies holds one entry per
\* mandatory failure and nothing else, its length mandatory_failed_count.
C38_LegacyTotalOverTexts ==
    (nout # NoValue /\ nin.format = "legacy") =>
        LET outcomes == nin.payload.outcomes
            known == SelectSeq(outcomes, IsRecognized)
            failing == SelectSeq(outcomes, IsMandatoryFailed)
        IN  /\ IsOk(nout)
            /\ nout = normalize(RunA, [nin EXCEPT !.payload.outcomes = known])
            /\ nout.value.total_count = Len(known)
            /\ nout.value.total_count <= Len(outcomes)
            /\ (nout.value.total_count = Len(outcomes))
                   <=> (\A i \in 1..Len(outcomes) : IsRecognized(outcomes[i]))
            /\ Len(nout.value.failed_policies)
                   = nout.value.mandatory_failed_count
            /\ nout.value.failed_policies
                   = [i \in 1..Len(failing) |->
                         MandatoryDetail(failing[i].policy_name)]

\* a legacy payload with an outcome of unknown text before a mandatory
\* failure has been normalized: one policy counted, one failed policy listed
C38_Witness ==
    /\ nout # NoValue
    /\ nin.format = "legacy"
    /\ Len(nin.payload.outcomes) = 2
    /\ nin.payload.outcomes[1].outcome = "unknown"
    /\ nin.payload.outcomes[1].enforcement_level = "mandatory"
    /\ IsMandatoryFailed(nin.payload.outcomes[2])
    /\ IsOk(nout)
    /\ nout.value.total_count = 1
    /\ Len(nout.value.failed_policies) = 1

(***************************************************************************)
(* The policy show command: one execution of PolicyShowCommand.Run over    *)
(* the service, from the parsing of its flags to its exit code.            *)
(***************************************************************************)
\* what the command is started with: whether setupCmd succeeds, and the
\* flags -run-id and -no-wait
ShowInputs ==
    [setup_ok : BOOLEAN,
     run_id : {<< >>, RunA, RunB, <<"r", "1">>},
     no_wait : BOOLEAN]

\* the command's result: exit code, the status output, whether the error
\* result was written and the outputs addPolicyEvaluationDetails added
ShowResult(exit, status, errorResult, details) ==
    [exit |-> exit, status |-> status, error_result |-> errorResult,
     details |-> details]

\* resolveStatus: the status output for an error of the service
resolveStatus(err) == IF err.kind = "Timeout" THEN "Timeout" ELSE "Error"

\* addPolicyEvaluationDetails: the outputs added for eval, none when it is
\* nil
addPolicyEvaluationDetails(eval) ==
    IF eval = NoValue THEN << >>
    ELSE << <<"run_id", eval.run_id>>,
            <<"total_count", eval.total_count>>,
            <<"passed_count", eval.passed_count>>,
            <<"advisory_failed_count", eval.advisory_failed_count>>,
            <<"mandatory_failed_count", eval.mandatory_failed_count>>,
            <<"errored_count", eval.errored_count>>,
            <<"requires_override", eval.requires_override>>,
            <<"policy_status", eval.status>> >>
         \o (IF Len(eval.failed_policies) > 0
             THEN << <<"failed_policies", eval.failed_policies>> >>
             ELSE << >>)
         \o << <<"payload", eval>> >>

\* Run after GetPolicyEvaluation, a pending evaluation taken for a success
ShowAfterFetchPendingIsSuccess(r) ==
    IF r.kind \notin {"ok", "Pending"}
    THEN ShowResult(1, resolveStatus(r), TRUE, << >>)
    ELSE ShowResult(0, "Success", FALSE,
                    addPolicyEvaluationDetails(
                        IF r.kind = "ok" THEN r.value ELSE NoValue))

\* Run after GetPolicyEvaluation has returned r
ShowAfterFetch(r) ==
    IF r.kind # "ok"
    THEN ShowResult(1, resolveStatus(r), TRUE, << >>)
    ELSE ShowResult(0, "Success", FALSE, addPolicyEvaluationDetails(r.value))

ShowInit ==
    /\ gw \in Gateways
    /\ nin \in ShowInputs
    /\ nout = NoValue
    /\ call = IdleCall
    /\ pc = "idle"
    /\ eng = IdleEng
    /\ calls = NoCalls
    /\ ret = NoValue
    /\ hist = "none"

\* Run up to its return without a fetch: setupCmd fails, or the run ID flag
\* is empty
ShowRejected ==
    /\ pc = "idle"
    /\ nout = NoValue
    /\ \/ /\ ~nin.setup_ok
          /\ nout' = ShowResult(1, "", FALSE, << >>)
       \/ /\ nin.setup_ok
          /\ nin.run_id = << >>
          /\ nout' = ShowResult(1, "Error", TRUE, << >>)
    /\ UNCHANGED <<gw, call, pc, eng, calls, ret, nin, hist>>

\* Run calls GetPolicyEvaluation with the flags
ShowFetch ==
    /\ nout = NoValue
    /\ nin.setup_ok
    /\ nin.run_id # << >>
    /\ GetPolicyEvaluation(nin.run_id, nin.no_wait, MaxDeadline - 3)

\* Run from the return of GetPolicyEvaluation to its own return
ShowFinish ==
    /\ pc = "done"
    /\ nout = NoValue
    /\ nout' = ShowAfterFetch(ret)
    /\ UNCHANGED <<gw, call, pc, eng, calls, ret, nin, hist>>

ShowNext ==
    \/ ShowRejected
    \/ ShowFetch
    \/ Probe
    \/ Tick
    \/ Wake
    \/ Interrupt
    \/ Cancel
    \/ GatewayAdvance
    \/ StagesAppear
    \/ ShowFinish

SpecShow == ShowInit /\ [][ShowNext]_vars

\* C39: PolicyShowCommand.Run returns exit code 0 if and only if
\* GetPolicyEvaluation was called and returned without error, and 1 in
\* every other case; with an empty run ID flag it returns 1 and
\* GetPolicyEvaluation is never called; and the policy evaluation details
\* are written to the output only on the success path.
C39_ExitCode ==
    /\ [](nout # NoValue =>
            /\ nout.exit \in {0, 1}
            /\ (nout.exit = 0) <=>
                   (call.op = "get" /\ pc = "done" /\ IsOk(ret))
            /\ (nout.details # << >>) =>
                   (nout.exit = 0 /\ IsOk(ret) /\ nout.status = "Success"))
    /\ [](nin.run_id = << >> =>
            /\ call = IdleCall
            /\ calls = NoCalls
            /\ pc = "idle"
            /\ (nout # NoValue => nout.exit = 1))

\* the command, started without -no-wait, has exited with 0 and written the
\* details of an evaluation that requires an override, after a wait of
\* several probes
C39_Witness ==
    /\ nout # NoValue
    /\ nout.exit = 0
    /\ ~nin.no_wait
    /\ eng.probes >= 2
    /\ IsOk(ret)
    /\ ret.value.requires_override
    /\ Len(nout.details) = 10

====
